---- MODULE Spec2Model ----
(***************************************************************************)
(* Model of the encounter engine (modules/encounter.py) and of the         *)
(* Static Gift Resets mode (modules/modes/static_gift_resets.py).          *)
(*                                                                         *)
(* Python values are encoded as strings: the singleton None is "None",     *)
(* the booleans returned by the catch filter are "True" and "False", a     *)
(* message returned by the filter is "Msg", and an exception raised by a   *)
(* callback is the outcome "Raise". The outcome "ImportError" of the       *)
(* filter stands for a failure to import the module that defines it.       *)
(***************************************************************************)
EXTENDS Integers, Sequences, FiniteSets, TLC

\* ------------------------------------------------------------------ bounds
\* Longest history of log_encounter calls kept in the interleaving model.
MaxCalls == 3
\* Largest number of soft resets issued by one run of the mode.
MaxAttempts == 2

\* ------------------------------------------------------------- value sets
NONE == "None"

\* Names the catch block list can hold.
BlockNames == {"Unown", "Unown (?)"}

\* pokemon.species_name_for_stats: the species name, with the letter for Unown.
Creature(pv, species, shiny) ==
    [personality_value |-> pv,
     species |-> species,
     species_name_for_stats |-> IF species = "Unown" THEN "Unown (?)" ELSE species,
     is_shiny |-> shiny]

\* Personality values (the identity value of a creature).
PersonalityValues == {"A", "B"}

Creatures == {Creature(pv, s, sh) : pv \in PersonalityValues, s \in {"Unown", "Beldum"},
                                    sh \in BOOLEAN}

\* What the catch filter callback and the plugin hook can do when called.
CallbackOutcomes == {"False", "True", "Msg", "None", "Raise"}

\* get_roamer(): no roamer, or the roamer's personality value and species.
NoRoamer == [active |-> FALSE, personality_value |-> NONE, species |-> NONE]
ActiveRoamer(pv, species) == [active |-> TRUE, personality_value |-> pv, species |-> species]

\* One effect of a call, in the order in which the code produces it.
Ev(e, a) == [e |-> e, a |-> a]

VARIABLES
    catch_block_file,       \* block list in the catch_block configuration file on disk
    block_list,             \* context.config.catch_block.block_list, as last loaded
    config,                 \* context.config: battle.auto_catch, logging.save_pk3.*
    profile_file,           \* whether <profile>/customcatchfilters.py exists
    custom_catch_filters,   \* the module global _custom_catch_filters
    roamer,                 \* get_roamer()
    last_encounter,         \* context.stats.last_encounter: its personality value or None
    stats_log,              \* the encounters recorded by context.stats.log_encounter
    bot_mode,               \* context.bot_mode
    he,                     \* the most recent handle_encounter / log_encounter call
    calls,                  \* history of the calls made so far
    pc,                     \* position of StaticGiftResetsMode.run
    mode                    \* the mode instance and the game state it drives

vars == <<catch_block_file, block_list, config, profile_file, custom_catch_filters,
          roamer, last_encounter, stats_log, bot_mode, he, calls, pc, mode>>

\* --------------------------------------------------- run_custom_catch_filters
\* Python truthiness of a callback's return value.
Truthy(v) == v \in {"True", "Msg"}

GenericMessage == "Matched a custom catch filter"

\* Mutant of ResolveCustomCatchFilters: the callback is looked up at every call.
ResolveCustomCatchFilters_every_call(current, profile_exists) ==
    IF profile_exists THEN "profile" ELSE "default"

\* Lines 41-48: the callback is resolved when the global is still None.
ResolveCustomCatchFilters(current, profile_exists) ==
    IF current = NONE
    THEN IF profile_exists THEN "profile" ELSE "default"
    ELSE current

\* Mutant of run_custom_catch_filters: an error of a callback is caught and the
\* creature counts as not matching.
run_custom_catch_filters_swallow(fret, hret) ==
    LET hook_called == fret \notin {"Raise", "ImportError"} /\ ~Truthy(fret)
        raw == IF hook_called THEN hret ELSE fret
    IN  [raised |-> FALSE,
         hook_called |-> hook_called,
         result |-> IF raw \in {"Raise", "ImportError"} THEN "False"
                    ELSE IF raw = "True" THEN GenericMessage
                    ELSE raw]

\* Lines 50-53: `filter(pokemon) or plugin_judge_encounter(pokemon)`, with True
\* replaced by the generic message. fret and hret are what the two callbacks do
\* when called; the hook is called only when the filter's result is falsy. When
\* the import of lines 43 or 46 fails (fret is "ImportError"), the error leaves the
\* function before the global is assigned and before any callback is called.
run_custom_catch_filters(fret, hret) ==
    LET hook_called == fret \notin {"Raise", "ImportError"} /\ ~Truthy(fret)
        raw == IF hook_called THEN hret ELSE fret
    IN  [raised |-> raw \in {"Raise", "ImportError"},
         hook_called |-> hook_called,
         result |-> IF raw \in {"Raise", "ImportError"} THEN NONE
                    ELSE IF raw = "True" THEN GenericMessage
                    ELSE raw]

\* ------------------------------------------------------------ judge_encounter
EncounterValues == {"Shiny", "ShinyOnBlockList", "Roamer", "RoamerOnBlockList",
                    "CustomFilterMatch", "Trash"}

\* Lines 64-66: the property EncounterValue.is_of_interest.
EncounterValue_is_of_interest(value) == value \in {"Shiny", "CustomFilterMatch"}

\* Mutant of reload_file: the block list is not reloaded, the loaded copy is used.
reload_file_stale(file, loaded) == loaded

\* Lines 79-80 and 95-96: context.config.reload_file("catch_block") followed by the
\* read of context.config.catch_block.block_list: the list is the file's content.
reload_file(file, loaded) == file

\* Lines 81 and 97: the membership test on the block list.
OnBlockList(pokemon, list) ==
    pokemon.species_name_for_stats \in list \/ pokemon.species \in list

\* Lines 89-94: the creature is the active roamer.
IsActiveRoamer(rm, pokemon) ==
    /\ rm.active
    /\ rm.personality_value = pokemon.personality_value
    /\ rm.species = pokemon.species

\* Mutant of judge_encounter: the roamer check comes before the custom filter.
judge_encounter_roamer_first(pokemon, fret, hret, rm, file, loaded) ==
    IF pokemon.is_shiny
    THEN [raised |-> FALSE,
          value |-> IF OnBlockList(pokemon, file) THEN "ShinyOnBlockList" ELSE "Shiny",
          block_list |-> file, ccf_calls |-> 0,
          trace |-> <<Ev("reload_file", "catch_block")>>]
    ELSE IF IsActiveRoamer(rm, pokemon)
    THEN [raised |-> FALSE,
          value |-> IF OnBlockList(pokemon, file) THEN "RoamerOnBlockList" ELSE "Roamer",
          block_list |-> file, ccf_calls |-> 0,
          trace |-> <<Ev("reload_file", "catch_block")>>]
    ELSE LET ccf == run_custom_catch_filters(fret, hret)
         IN  [raised |-> ccf.raised,
              value |-> IF ccf.raised THEN NONE
                        ELSE IF ccf.result # "False" THEN "CustomFilterMatch" ELSE "Trash",
              block_list |-> loaded, ccf_calls |-> 1,
              trace |-> <<Ev("filter", ccf.result)>>]

\* Lines 69-102. The result carries the value returned (None when the filter
\* raised), the block list held by the configuration afterwards, and the number of
\* filter evaluations.
judge_encounter(pokemon, fret, hret, rm, file, loaded) ==
    IF pokemon.is_shiny
    THEN LET list == reload_file(file, loaded)
         IN  [raised |-> FALSE,
              value |-> IF OnBlockList(pokemon, list) THEN "ShinyOnBlockList" ELSE "Shiny",
              block_list |-> list,
              ccf_calls |-> 0,
              trace |-> <<Ev("reload_file", "catch_block")>>]
    ELSE LET ccf == run_custom_catch_filters(fret, hret)
         IN  IF ccf.raised
             THEN [raised |-> TRUE, value |-> NONE, block_list |-> loaded,
                   ccf_calls |-> 1, trace |-> <<Ev("raise", "filter")>>]
             ELSE IF ccf.result # "False"
             THEN [raised |-> FALSE, value |-> "CustomFilterMatch", block_list |-> loaded,
                   ccf_calls |-> 1, trace |-> <<Ev("filter", ccf.result)>>]
             ELSE IF IsActiveRoamer(rm, pokemon)
             THEN LET list == reload_file(file, loaded)
                  IN  [raised |-> FALSE,
                       value |-> IF OnBlockList(pokemon, list)
                                 THEN "RoamerOnBlockList" ELSE "Roamer",
                       block_list |-> list,
                       ccf_calls |-> 1,
                       trace |-> <<Ev("filter", ccf.result), Ev("reload_file", "catch_block")>>]
             ELSE [raised |-> FALSE, value |-> "Trash", block_list |-> loaded,
                   ccf_calls |-> 1, trace |-> <<Ev("filter", ccf.result)>>]

\* -------------------------------------------------------------- log_encounter
BattleActions == {"Catch", "CustomAction", "Fight", "RunAway"}

\* Mutant of AlreadyLogged: the guard against double-logging is missing.
AlreadyLogged_no_guard(last, pokemon) == FALSE

\* Lines 106-111: the guard against double-logging.
AlreadyLogged(last, pokemon) ==
    last # NONE /\ last = pokemon.personality_value

\* Lines 139-149: the tail of context.message.
MessageAction(action) ==
    CASE action = "Catch" -> ", catching..."
      [] action = "CustomAction" -> ", switched to manual mode so you can catch it."
      [] action = "Fight" -> ", FIGHT!"
      [] action = "RunAway" -> ", running away..."
      [] OTHER -> "."

\* context.stats.log_encounter(pokemon, ccf_result): appends the encounter to the
\* statistics and makes it the last encounter.
StatsLogEncounter(log, pokemon, ccf_result) ==
    [log |-> Append(log, [personality_value |-> pokemon.personality_value,
                          ccf_result |-> ccf_result]),
     last_encounter |-> pokemon.personality_value]

\* Lines 105-151. `last` is context.stats.last_encounter's personality value.
log_encounter(pokemon, action, last, fret, hret, save_all) ==
    IF AlreadyLogged(last, pokemon)
    THEN [raised |-> FALSE, recorded |-> FALSE, ccf_calls |-> 0, ccf_result |-> NONE,
          trace |-> <<Ev("log_encounter", action)>>]
    ELSE LET ccf == run_custom_catch_filters(fret, hret)
         IN  IF ccf.raised
             THEN [raised |-> TRUE, recorded |-> FALSE, ccf_calls |-> 1, ccf_result |-> NONE,
                   trace |-> <<Ev("log_encounter", action), Ev("raise", "filter")>>]
             ELSE [raised |-> FALSE, recorded |-> TRUE, ccf_calls |-> 1,
                   ccf_result |-> ccf.result,
                   trace |-> <<Ev("log_encounter", action), Ev("print_stats", ""),
                               Ev("stats.log_encounter", ccf.result)>>
                             \o (IF save_all THEN <<Ev("save_pk3", "log_encounter")>> ELSE <<>>)
                             \o <<Ev("message", MessageAction(action))>>]

\* ----------------------------------------------------------- handle_encounter
\* make_string_safe_for_file_name: characters a file name cannot hold are replaced.
make_string_safe_for_file_name(name) ==
    IF name = "Unown (?)" THEN "Unown (_)" ELSE name

\* Mutant of filename_suffix: the plain species name is used, not the name the
\* statistics use.
filename_suffix_species_name(value, pokemon) ==
    value \o "_" \o make_string_safe_for_file_name(pokemon.species)

\* Line 215: the suffix of the savestate, `{encounter_value.name}_{safe name}`.
filename_suffix(value, pokemon) ==
    value \o "_" \o make_string_safe_for_file_name(pokemon.species_name_for_stats)

\* Mutant of ArmSavesPk3: the Roamer arm does not look at the roamer toggle.
ArmSavesPk3_roamer_untoggled(value, save_pk3, seen) ==
    CASE value = "Shiny" -> ~save_pk3.all /\ save_pk3.shiny
      [] value = "CustomFilterMatch" -> ~save_pk3.all /\ save_pk3.custom
      [] value = "Roamer" -> ~seen /\ ~save_pk3.all
      [] value = "ShinyOnBlockList" -> ~save_pk3.all /\ save_pk3.shiny
      [] OTHER -> FALSE

\* Mutant of ArmSavesPk3: the Shiny arm does not look at the all toggle.
ArmSavesPk3_shiny_ignores_all(value, save_pk3, seen) ==
    CASE value = "Shiny" -> save_pk3.shiny
      [] value = "CustomFilterMatch" -> ~save_pk3.all /\ save_pk3.custom
      [] value = "Roamer" -> ~seen /\ (~save_pk3.all /\ save_pk3.roamer)
      [] value = "ShinyOnBlockList" -> ~save_pk3.all /\ save_pk3.shiny
      [] OTHER -> FALSE

\* Mutant of ArmSavesPk3: the RoamerOnBlockList arm saves like the
\* ShinyOnBlockList arm, on its toggle.
ArmSavesPk3_blocked_roamer(value, save_pk3, seen) ==
    CASE value = "Shiny" -> ~save_pk3.all /\ save_pk3.shiny
      [] value = "CustomFilterMatch" -> ~save_pk3.all /\ save_pk3.custom
      [] value = "Roamer" -> ~seen /\ (~save_pk3.all /\ save_pk3.roamer)
      [] value = "ShinyOnBlockList" -> ~save_pk3.all /\ save_pk3.shiny
      [] value = "RoamerOnBlockList" -> ~save_pk3.all /\ save_pk3.roamer
      [] OTHER -> FALSE

\* Lines 162-201: whether the arm of the match statement calls save_pk3.
\* `seen` is `pokemon.species in get_pokedex().seen_species`.
ArmSavesPk3(value, save_pk3, seen) ==
    CASE value = "Shiny" -> ~save_pk3.all /\ save_pk3.shiny
      [] value = "CustomFilterMatch" -> ~save_pk3.all /\ save_pk3.custom
      [] value = "Roamer" -> ~seen /\ (~save_pk3.all /\ save_pk3.roamer)
      [] value = "ShinyOnBlockList" -> ~save_pk3.all /\ save_pk3.shiny
      [] OTHER -> FALSE

\* Lines 164, 172, 179, 189, 196, 200: the title of the alert, None for no alert.
AlertTitle(value) ==
    CASE value = "Shiny" -> "Shiny found!"
      [] value = "CustomFilterMatch" -> "Custom filter triggered!"
      [] value = "Roamer" -> "Roaming Pokemon found!"
      [] OTHER -> NONE

\* Lines 167, 175, 185, 192, 197, 201: the local is_of_interest set by each arm.
IsOfInterest(value) == value \in {"Shiny", "CustomFilterMatch", "Roamer"}

\* Line 212.
battle_is_active(game_state) ==
    game_state \in {"BATTLE", "BATTLE_STARTING", "BATTLE_ENDING"}

\* Mutant of Decide: Catch is chosen without looking at battle_is_active.
Decide_ignores_battle(is_of_interest, auto_catch, disable_auto_catch, battle, enable_auto_battle) ==
    IF is_of_interest
    THEN IF auto_catch /\ ~disable_auto_catch
         THEN [decision |-> "Catch", manual |-> FALSE]
         ELSE [decision |-> "CustomAction", manual |-> TRUE]
    ELSE IF enable_auto_battle
    THEN [decision |-> "Fight", manual |-> FALSE]
    ELSE [decision |-> "RunAway", manual |-> FALSE]

\* Mutant of Decide: context.set_manual_mode() is not called.
Decide_no_manual(is_of_interest, auto_catch, disable_auto_catch, battle, enable_auto_battle) ==
    IF is_of_interest
    THEN IF auto_catch /\ ~disable_auto_catch /\ battle
         THEN [decision |-> "Catch", manual |-> FALSE]
         ELSE [decision |-> "CustomAction", manual |-> FALSE]
    ELSE IF enable_auto_battle
    THEN [decision |-> "Fight", manual |-> FALSE]
    ELSE [decision |-> "RunAway", manual |-> FALSE]

\* Lines 214-226: the decision, and whether context.set_manual_mode() is called.
Decide(is_of_interest, auto_catch, disable_auto_catch, battle, enable_auto_battle) ==
    IF is_of_interest
    THEN IF auto_catch /\ ~disable_auto_catch /\ battle
         THEN [decision |-> "Catch", manual |-> FALSE]
         ELSE [decision |-> "CustomAction", manual |-> TRUE]
    ELSE IF enable_auto_battle
    THEN [decision |-> "Fight", manual |-> FALSE]
    ELSE [decision |-> "RunAway", manual |-> FALSE]

\* Mutant of LoggedAction: the decision is logged whatever the caller asked for.
LoggedAction_always_decision(do_not_log_battle_action, battle, decision) == decision

\* Lines 228-231: the action handed to log_encounter.
LoggedAction(do_not_log_battle_action, battle, decision) ==
    IF do_not_log_battle_action \/ ~battle THEN NONE ELSE decision

\* Lines 154-233. args = [disable_auto_catch, enable_auto_battle,
\* do_not_log_battle_action]; env = [fret, hret, seen, game_state] is what the
\* callbacks, the pokedex and the game report during the call; st is the part of
\* the context the call reads.
handle_encounter(pokemon, args, env, st) ==
    LET j == judge_encounter(pokemon, env.fret, env.hret, st.roamer, st.file, st.block_list)
    IN  IF j.raised
        THEN [raised |-> TRUE, value |-> NONE, is_of_interest |-> FALSE, decision |-> NONE,
              manual |-> FALSE, recorded |-> FALSE, ccf_result |-> NONE,
              block_list |-> j.block_list, ccf_calls |-> j.ccf_calls, trace |-> j.trace]
        ELSE
        LET value == j.value
            arm == (IF value = "CustomFilterMatch"
                    THEN <<Ev("filter", run_custom_catch_filters(env.fret, env.hret).result)>>
                    ELSE <<>>)
                   \o (IF value \notin {"Trash"} THEN <<Ev("console.print", value)>> ELSE <<>>)
                   \o (IF ArmSavesPk3(value, st.config.save_pk3, env.seen)
                       THEN <<Ev("save_pk3", "handle_encounter")>> ELSE <<>>)
            alert == IF AlertTitle(value) # NONE
                     THEN <<Ev("desktop_notification", AlertTitle(value))>> ELSE <<>>
            battle == battle_is_active(env.game_state)
            interest == IsOfInterest(value)
            d == Decide(interest, st.config.auto_catch, args.disable_auto_catch, battle,
                        args.enable_auto_battle)
            chosen == (IF interest
                       THEN <<Ev("create_save_state", filename_suffix(value, pokemon))>>
                       ELSE <<>>)
                      \o (IF d.manual THEN <<Ev("set_manual_mode", "")>> ELSE <<>>)
                      \o <<Ev("decision", d.decision)>>
            l == log_encounter(pokemon,
                               LoggedAction(args.do_not_log_battle_action, battle, d.decision),
                               st.last_encounter, env.fret, env.hret, st.config.save_pk3.all)
        IN  [raised |-> l.raised, value |-> value, is_of_interest |-> interest,
             decision |-> d.decision, manual |-> d.manual, recorded |-> l.recorded,
             ccf_result |-> l.ccf_result, block_list |-> j.block_list,
             ccf_calls |-> j.ccf_calls + (IF value = "CustomFilterMatch" THEN 1 ELSE 0)
                           + l.ccf_calls,
             trace |-> j.trace \o arm \o alert \o chosen \o l.trace
                       \o (IF l.raised THEN <<>> ELSE <<Ev("return", d.decision)>>)]

\* ------------------------------------------------- the calls, as actions
NoCall == [op |-> "none"]

Args(dac, eab, dnl) ==
    [disable_auto_catch |-> dac, enable_auto_battle |-> eab, do_not_log_battle_action |-> dnl]

Env(fret, hret, seen, game_state) ==
    [fret |-> fret, hret |-> hret, seen |-> seen, game_state |-> game_state]

\* The part of the context a call reads.
Context ==
    [roamer |-> roamer, file |-> catch_block_file, block_list |-> block_list,
     config |-> config, last_encounter |-> last_encounter]

\* One entry of the call history: the creature, the block list file and the last
\* encounter at the time of the call, the classification made (None when
\* judge_encounter did not run or raised), whether log_encounter ran and returned,
\* and whether it recorded the encounter.
CallEntry(pokemon, value, logged, returned, recorded) ==
    [pokemon |-> pokemon, file |-> catch_block_file, value |-> value,
     logged |-> logged, returned |-> returned, recorded |-> recorded]

\* A call handle_encounter(pokemon, **args), made at any point where the program
\* handles an encounter. All of the call happens in one step: it never suspends.
HandleEncounter(pokemon, args, env) ==
    LET r == handle_encounter(pokemon, args, env, Context)
        s == StatsLogEncounter(stats_log, pokemon, r.ccf_result)
    IN  /\ he' = [op |-> "handle_encounter", pokemon |-> pokemon, args |-> args, env |-> env,
                  file |-> catch_block_file, prev_last |-> last_encounter,
                  prev_mode |-> bot_mode, prev_len |-> Len(stats_log),
                  profile_file |-> profile_file,
                  auto_catch |-> config.auto_catch, r |-> r]
        /\ block_list' = r.block_list
        /\ env.fret = "ImportError" => custom_catch_filters = NONE
        /\ custom_catch_filters' =
               IF r.ccf_calls > 0 /\ env.fret # "ImportError"
               THEN ResolveCustomCatchFilters(custom_catch_filters, profile_file)
               ELSE custom_catch_filters
        /\ stats_log' = IF r.recorded THEN s.log ELSE stats_log
        /\ last_encounter' = IF r.recorded THEN s.last_encounter ELSE last_encounter
        /\ bot_mode' = IF r.manual THEN "Manual" ELSE bot_mode
        /\ calls' = Append(calls, CallEntry(pokemon, r.value, r.value # NONE,
                                            ~r.raised, r.recorded))
        /\ UNCHANGED <<catch_block_file, config, profile_file, roamer>>

\* A call log_encounter(pokemon, action) made directly by a mode.
LogEncounter(pokemon, action, env) ==
    LET r == log_encounter(pokemon, action, last_encounter, env.fret, env.hret,
                           config.save_pk3.all)
        s == StatsLogEncounter(stats_log, pokemon, r.ccf_result)
    IN  /\ he' = [op |-> "log_encounter", pokemon |-> pokemon, action |-> action, env |-> env,
                  file |-> catch_block_file, prev_last |-> last_encounter,
                  prev_mode |-> bot_mode, prev_len |-> Len(stats_log),
                  profile_file |-> profile_file,
                  auto_catch |-> config.auto_catch, r |-> r]
        /\ env.fret = "ImportError" => custom_catch_filters = NONE
        /\ custom_catch_filters' =
               IF r.ccf_calls > 0 /\ env.fret # "ImportError"
               THEN ResolveCustomCatchFilters(custom_catch_filters, profile_file)
               ELSE custom_catch_filters
        /\ stats_log' = IF r.recorded THEN s.log ELSE stats_log
        /\ last_encounter' = IF r.recorded THEN s.last_encounter ELSE last_encounter
        /\ calls' = Append(calls, CallEntry(pokemon, NONE, TRUE, ~r.raised, r.recorded))
        /\ UNCHANGED <<catch_block_file, block_list, config, profile_file, roamer, bot_mode>>

\* The operator edits the catch block list file: a species is listed or unlisted.
EditBlockList(name) ==
    /\ catch_block_file' = IF name \in catch_block_file
                           THEN catch_block_file \ {name}
                           ELSE catch_block_file \cup {name}
    /\ UNCHANGED <<block_list, config, profile_file, custom_catch_filters, roamer,
                   last_encounter, stats_log, bot_mode, he, calls>>

\* The per-profile file customcatchfilters.py is added to or removed from the
\* profile directory.
EditProfileFile ==
    /\ profile_file' = ~profile_file
    /\ UNCHANGED <<catch_block_file, block_list, config, custom_catch_filters, roamer,
                   last_encounter, stats_log, bot_mode, he, calls>>

\* The callbacks' behaviours: the hook's outcome matters only where it is called.
Behaviours ==
    {b \in CallbackOutcomes \X CallbackOutcomes :
        (Truthy(b[1]) \/ b[1] = "Raise") => b[2] = "False"}

\* ------------------------------------------------- StaticGiftResetsMode
\* encounter[2] of the entries _get_targeted_encounter can return, per game.
Targets(rom) ==
    IF rom = "FRLG"
    THEN {"Lapras", "Hitmonlee", "Hitmonchan", "Kanto Fossils", "Eevee", "Magikarp", "Togepi"}
    ELSE {"Castform", "Hoenn Fossils", "Beldum", "Wynaut"}

EggTargets == {"Wynaut", "Togepi"}
FossilTargets == {"Hoenn Fossils", "Kanto Fossils"}

\* The assertions of modes/_asserts.py: each raises BotModeError with its message
\* when the saved game does not satisfy it, and returns otherwise.
assert_save_game_exists(save, message) == IF save.exists THEN "ok" ELSE message
assert_registered_item(save, message) == IF save.registered_bike THEN "ok" ELSE message
assert_empty_slot_in_party(save, message) == IF save.party_full THEN message ELSE "ok"

\* Mutant of FossilCheck: only the live value of the variable is checked.
FossilCheck_live_only(s, v) ==
    IF v = 0 THEN "first give a Fossil to the Scientist"
    ELSE IF v = 1 THEN "the Scientist is not ready yet"
    ELSE "ok"

\* Mutant of FossilCheck: the saved value is looked at first, so that a saved 0
\* is reported as a missing save even when the live value is 0 too.
FossilCheck_saved_first(s, v) ==
    IF s = 0 THEN "save the game after giving a Fossil"
    ELSE IF v = 0 THEN "first give a Fossil to the Scientist"
    ELSE IF s = 1
    THEN IF v = 1 THEN "the Scientist is not ready yet"
                  ELSE "you need to save the game"
    ELSE "ok"

\* Lines 141-162: the checks on the fossil event variable; s is its value in the
\* saved game, v its live value.
FossilCheck(s, v) ==
    IF s = 0 \/ v = 0
    THEN IF v = 0 THEN "first give a Fossil to the Scientist"
                  ELSE "save the game after giving a Fossil"
    ELSE IF s = 1
    THEN IF v = 1 THEN "the Scientist is not ready yet"
                  ELSE "you need to save the game"
    ELSE "ok"

\* The first of a sequence of check results that is an error, "ok" when none is.
RECURSIVE FirstError(_)
FirstError(checks) ==
    IF checks = <<>> THEN "ok"
    ELSE IF Head(checks) # "ok" THEN Head(checks)
    ELSE FirstError(Tail(checks))

\* Lines 97-166: the checks run before the loop, in the order of the code. The
\* result is the message of the BotModeError raised, or "ok".
PreconditionError(m) ==
    LET t == m.target
        save == m.save
    IN  FirstError(<<
          IF t = NONE THEN "not facing the gift tile" ELSE "ok",
          assert_save_game_exists(save, "no saved game"),
          IF ~save.on_map THEN "not in the current map" ELSE "ok",
          IF t = "Wynaut" THEN assert_registered_item(save, "register the Mach Bike") ELSE "ok",
          IF t = "Wynaut" /\ save.egg_flag THEN "already received the Wynaut egg" ELSE "ok",
          IF t = "Togepi" /\ save.egg_flag THEN "already received the Togepi egg" ELSE "ok",
          IF t = "Togepi" THEN assert_registered_item(save, "register the Bicycle") ELSE "ok",
          IF t = "Togepi" /\ save.friendship < 255 THEN "max friendship needed" ELSE "ok",
          IF t \in FossilTargets THEN FossilCheck(save.fossil_var, m.fossil_var) ELSE "ok",
          assert_empty_slot_in_party(save, "party is full")
        >>)

\* What one advance of the generator did: the loop of which it began an iteration
\* (or "none"), whether the bot mode was Manual when that iteration began, the
\* scripted inputs it issued, and whether it called handle_encounter.
Step(iter, manual, input, handled) ==
    [iter |-> iter, manual |-> manual, input |-> input, handled |-> handled]

NoStep == Step("none", FALSE, {}, FALSE)

\* Mutant of StillDriving: the retry loop does not look at the bot mode.
StillDriving_always(bm) == TRUE

\* Line 168: `while context.bot_mode != "Manual"`, evaluated with bot mode bm.
StillDriving(bm) == bm # "Manual"

\* Lines 168-169: the head of the retry loop and, when the loop goes on, the start
\* of the soft reset, which reloads the saved game. `handled` tells whether the
\* step that reaches the head called handle_encounter.
LoopHead(bm, m, handled) ==
    IF StillDriving(bm)
    THEN /\ m.attempts < MaxAttempts
         /\ pc' = "soft_reset"
         /\ mode' = [m EXCEPT !.attempts = @ + 1,
                              !.eggs = m.save.eggs,
                              !.party_size = m.save.party_size,
                              !.held = FALSE,
                              !.step = Step("retry", bm = "Manual", {"soft_reset"}, handled)]
    ELSE /\ pc' = "done"
         /\ mode' = [m EXCEPT !.step = Step("none", FALSE, {}, handled)]

EncounterUnchanged ==
    UNCHANGED <<catch_block_file, block_list, config, profile_file, custom_catch_filters,
                roamer, last_encounter, stats_log, he, calls>>

\* The first advance of run(): lines 97-168.
RunStart ==
    /\ pc = "start"
    /\ LET e == PreconditionError(mode)
       IN  IF e # "ok"
           THEN /\ pc' = "error"
                /\ mode' = [mode EXCEPT !.err = e]
           ELSE LoopHead(bot_mode, mode, FALSE)
    /\ UNCHANGED bot_mode
    /\ EncounterUnchanged

\* Mutant of SoftResetDone: the wait for a unique RNG value is left out, the
\* message boxes follow the soft reset at once.
SoftResetDone_skips_rng ==
    /\ pc = "soft_reset"
    /\ pc' = "msgbox"
    /\ mode' = [mode EXCEPT !.step = Step("none", FALSE, {"A"}, FALSE)]
    /\ UNCHANGED bot_mode
    /\ EncounterUnchanged

\* Line 169: soft_reset completes; line 170: wait_for_unique_rng_value begins.
SoftResetDone ==
    /\ pc = "soft_reset"
    /\ pc' = "wait_rng"
    /\ mode' = [mode EXCEPT !.step = NoStep]
    /\ UNCHANGED bot_mode
    /\ EncounterUnchanged

\* Lines 170-181: the RNG value is unique; the wait for the message box begins,
\* pressing A.
RngDone ==
    /\ pc = "wait_rng"
    /\ pc' = "msgbox"
    /\ mode' = [mode EXCEPT !.step = Step("none", FALSE, {"A"}, FALSE)]
    /\ UNCHANGED bot_mode
    /\ EncounterUnchanged

\* Lines 216-217: egg_in_party().
egg_in_party(m) == Cardinality(m.eggs)

\* Lines 251-254: the head of the loop `while egg_in_party() > 0`. When the loop
\* goes on, wait_for_player_avatar_to_be_controllable begins; when it ends, control
\* is back at the head of the retry loop.
HatchLoopHead(bm, m) ==
    IF egg_in_party(m) > 0
    THEN /\ pc' = "wait_controllable"
         /\ mode' = [m EXCEPT !.step = Step("hatch", bm = "Manual", {}, FALSE)]
    ELSE LoopHead(bm, m, FALSE)

\* Lines 248-250: the head of the loop `while egg_in_party() == 0`, whose body
\* presses B and suspends.
PressBLoopHead(bm, m) ==
    IF egg_in_party(m) = 0
    THEN /\ pc' = "press_b"
         /\ mode' = [m EXCEPT !.step = Step("press_b", bm = "Manual", {"B"}, FALSE)]
    ELSE HatchLoopHead(bm, m)

\* Lines 240-244: one turn of `for _ in follow_waypoints(hatching_path())`: the
\* next step of the path is walked, then the hatched flag ends the loop and the
\* held buttons are released, or the sub-sequence suspends.
PacingLoopHead(bm, m) ==
    IF m.egg_has_hatched
    THEN HatchLoopHead(bm, [m EXCEPT !.held = FALSE])
    ELSE /\ pc' = "pacing"
         /\ mode' = [m EXCEPT !.held = TRUE,
                              !.step = Step("pacing", bm = "Manual", {"move"}, FALSE)]

\* Lines 173-214 are done (the message boxes, accepting the gift, declining the
\* nickname); line 247 or line 257 begins.
MsgboxDone ==
    /\ pc = "msgbox"
    /\ IF mode.target \in EggTargets
       THEN /\ pc' = "wait_fanfare"
            /\ mode' = [mode EXCEPT !.step = Step("none", FALSE, {"A", "B"}, FALSE)]
       ELSE /\ pc' = "start_menu"
            /\ mode' = [mode EXCEPT !.party_size = @ + 1,
                                    !.step = Step("none", FALSE, {"A", "B"}, FALSE)]
    /\ UNCHANGED bot_mode
    /\ EncounterUnchanged

\* Line 247 is done; line 248.
FanfareDone ==
    /\ pc = "wait_fanfare"
    /\ PressBLoopHead(bot_mode, mode)
    /\ UNCHANGED bot_mode
    /\ EncounterUnchanged

\* Line 250 resumes; line 248.
PressB ==
    /\ pc = "press_b"
    /\ PressBLoopHead(bot_mode, mode)
    /\ UNCHANGED bot_mode
    /\ EncounterUnchanged

\* Line 252 is done; lines 253-254 and 220-229: the flag is cleared and
\* hatch_egg begins with navigate_to.
Controllable ==
    /\ pc = "wait_controllable"
    /\ pc' = "navigate"
    /\ mode' = [mode EXCEPT !.egg_has_hatched = FALSE,
                            !.held = TRUE,
                            !.step = Step("none", FALSE, {"move"}, FALSE)]
    /\ UNCHANGED bot_mode
    /\ EncounterUnchanged

\* Line 229 is done; lines 230-243: Select is pressed unless the player is on the
\* bike, and the pacing begins.
NavigateDone ==
    /\ pc = "navigate"
    /\ \E on_bike \in BOOLEAN :
          IF mode.egg_has_hatched
          THEN HatchLoopHead(bot_mode, [mode EXCEPT !.held = FALSE])
          ELSE /\ pc' = "pacing"
               /\ mode' = [mode EXCEPT
                              !.held = TRUE,
                              !.step = Step("pacing", bot_mode = "Manual",
                                            IF on_bike THEN {"move"} ELSE {"Select", "move"},
                                            FALSE)]
    /\ UNCHANGED bot_mode
    /\ EncounterUnchanged

\* Line 243 resumes; lines 240-244.
Pacing ==
    /\ pc = "pacing"
    /\ PacingLoopHead(bot_mode, mode)
    /\ UNCHANGED bot_mode
    /\ EncounterUnchanged

\* Line 257 is done; line 258 begins.
StartMenuDone ==
    /\ pc = "start_menu"
    /\ pc' = "party_menu"
    /\ mode' = [mode EXCEPT !.step = NoStep]
    /\ UNCHANGED bot_mode
    /\ EncounterUnchanged

\* The species given at the targeted tile.
GiftSpecies(target) ==
    CASE target = "Kanto Fossils" -> "Omanyte"
      [] target = "Hoenn Fossils" -> "Lileep"
      [] OTHER -> target

\* Line 258 is done; line 260: handle_encounter(get_party()[-1],
\* disable_auto_catch=True), then the head of the retry loop (line 168). A filter
\* that raises ends run() with that error.
HandleGift(pokemon, env) ==
    /\ pc = "party_menu"
    /\ HandleEncounter(pokemon, Args(TRUE, FALSE, FALSE), env)
    /\ LET r == handle_encounter(pokemon, Args(TRUE, FALSE, FALSE), env, Context)
       IN  IF r.raised
           THEN /\ pc' = "error"
                /\ mode' = [mode EXCEPT !.err = "filter raised",
                                        !.step = Step("none", FALSE, {}, TRUE)]
           ELSE LoopHead(IF r.manual THEN "Manual" ELSE bot_mode, mode, TRUE)

\* Mutant of on_egg_hatched: the flag is set whichever slot the egg was in.
on_egg_hatched_any_slot(m, interest, party_index) ==
    [m EXCEPT !.egg_has_hatched = TRUE, !.popped = ~interest]

\* Lines 86-94: on_egg_hatched(encounter, party_index).
on_egg_hatched(m, interest, party_index) ==
    [m EXCEPT !.egg_has_hatched = IF party_index = m.party_size - 1 THEN TRUE ELSE @,
              !.popped = ~interest]

\* The game gives the egg: it takes the last slot of the party.
EggReceived ==
    /\ pc \in {"wait_fanfare", "press_b"}
    /\ "gift" \notin mode.eggs
    /\ mode' = [mode EXCEPT !.eggs = @ \cup {"gift"}, !.party_size = @ + 1]
    /\ UNCHANGED <<pc, bot_mode>>
    /\ EncounterUnchanged

\* An egg hatches while the player walks, and the game calls on_egg_hatched. The
\* gift egg is in the last slot, an egg the player already had is in slot 0.
EggHatched(egg, interest) ==
    /\ pc \in {"navigate", "pacing"}
    /\ egg \in mode.eggs
    /\ mode' = on_egg_hatched([mode EXCEPT !.eggs = @ \ {egg}], interest,
                              IF egg = "gift" THEN mode.party_size - 1 ELSE 0)
    /\ UNCHANGED <<pc, bot_mode>>
    /\ EncounterUnchanged

\* navigate_to (line 229) or follow_waypoints (line 240) raises while hatch_egg
\* walks: nothing catches the error, line 244 is not reached and run ends with it.
NavigationRaises ==
    /\ pc \in {"navigate", "pacing"}
    /\ pc' = "error"
    /\ mode' = [mode EXCEPT !.err = "navigation raised", !.step = NoStep]
    /\ UNCHANGED bot_mode
    /\ EncounterUnchanged

\* The bot is in manual mode and the scheduler drops the mode while it is
\* suspended at line 243: the generator is closed at the yield, and the code
\* after the loop (line 244) does not run.
Abandoned ==
    /\ pc = "pacing"
    /\ bot_mode = "Manual"
    /\ pc' = "abandoned"
    /\ mode' = [mode EXCEPT !.step = NoStep]
    /\ UNCHANGED bot_mode
    /\ EncounterUnchanged

\* The operator switches the bot to manual mode.
OperatorSetManual ==
    /\ bot_mode # "Manual"
    /\ bot_mode' = "Manual"
    /\ UNCHANGED <<pc, mode>>
    /\ EncounterUnchanged

\* --------------------------------------------------------- specifications
\* The mode is not running.
IdleMode ==
    [rom |-> NONE, target |-> NONE,
     save |-> [exists |-> TRUE, on_map |-> TRUE, registered_bike |-> TRUE,
               egg_flag |-> FALSE, friendship |-> 255, fossil_var |-> 2,
               party_full |-> FALSE, party_size |-> 1, eggs |-> {}],
     fossil_var |-> 2, attempts |-> 0, eggs |-> {}, party_size |-> 1,
     egg_has_hatched |-> FALSE, popped |-> FALSE, held |-> FALSE,
     step |-> NoStep, err |-> NONE]

ModeUnchanged == UNCHANGED <<pc, mode>>

\* Spec: encounters handled one after the other, interleaved with the operator's
\* edits of the block list file.
SeqBlockNames == {"Unown (?)"}
SeqCreatures == {Creature("A", "Unown", FALSE), Creature("B", "Unown", FALSE),
                 Creature("A", "Unown", TRUE)}
SeqBehaviours == {<<"False", "False">>, <<"Raise", "False">>}
SeqConfig == [auto_catch |-> TRUE,
              save_pk3 |-> [all |-> FALSE, shiny |-> TRUE, custom |-> TRUE, roamer |-> TRUE]]

Init ==
    /\ catch_block_file \in SUBSET SeqBlockNames
    /\ block_list = catch_block_file
    /\ config = SeqConfig
    /\ profile_file = FALSE
    /\ custom_catch_filters = NONE
    /\ roamer \in {NoRoamer, ActiveRoamer("B", "Unown")}
    /\ last_encounter = NONE
    /\ stats_log = <<>>
    /\ bot_mode = "Spin"
    /\ he = NoCall
    /\ calls = <<>>
    /\ pc = "idle"
    /\ mode = IdleMode

SeqEdit ==
    \E name \in SeqBlockNames : EditBlockList(name) /\ ModeUnchanged

SeqHandle ==
    /\ Len(calls) < MaxCalls
    /\ \E pokemon \in SeqCreatures, b \in SeqBehaviours :
          HandleEncounter(pokemon, Args(FALSE, FALSE, FALSE),
                          Env(b[1], b[2], FALSE, "BATTLE"))
    /\ ModeUnchanged

SeqLog ==
    /\ Len(calls) < MaxCalls
    /\ \E pokemon \in SeqCreatures, b \in SeqBehaviours :
          LogEncounter(pokemon, NONE, Env(b[1], b[2], FALSE, "OVERWORLD"))
    /\ ModeUnchanged

Next == SeqEdit \/ SeqHandle \/ SeqLog

Spec == Init /\ [][Next]_vars

\* SpecCall: one call, made in any state of the context and with any arguments.
CallSavePk3 ==
    {[all |-> TRUE, shiny |-> FALSE, custom |-> FALSE, roamer |-> FALSE],
     [all |-> FALSE, shiny |-> TRUE, custom |-> TRUE, roamer |-> TRUE]}
CallBlockLists == {{}, {"Unown"}, {"Unown (?)"}}

InitCall ==
    /\ catch_block_file \in CallBlockLists
    /\ block_list = catch_block_file
    /\ config \in [auto_catch : BOOLEAN, save_pk3 : CallSavePk3]
    /\ profile_file = FALSE
    /\ custom_catch_filters = NONE
    /\ roamer \in {NoRoamer, ActiveRoamer("A", "Unown")}
    /\ last_encounter \in {NONE, "A"}
    /\ stats_log = IF last_encounter = NONE THEN <<>>
                   ELSE <<[personality_value |-> last_encounter, ccf_result |-> "False"]>>
    /\ bot_mode = "Spin"
    /\ he = NoCall
    /\ calls = <<>>
    /\ pc = "idle"
    /\ mode = IdleMode

CallHandle ==
    /\ calls = <<>>
    /\ \E pokemon \in Creatures, dac \in BOOLEAN, eab \in BOOLEAN, dnl \in BOOLEAN,
          b \in Behaviours, game_state \in {"OVERWORLD", "BATTLE"} :
          \E seen \in IF IsActiveRoamer(roamer, pokemon) THEN BOOLEAN ELSE {FALSE} :
             HandleEncounter(pokemon, Args(dac, eab, dnl), Env(b[1], b[2], seen, game_state))
    /\ ModeUnchanged

CallLog ==
    /\ calls = <<>>
    /\ \E pokemon \in Creatures, action \in {NONE, "Fight"}, b \in Behaviours :
          LogEncounter(pokemon, action, Env(b[1], b[2], FALSE, "BATTLE"))
    /\ ModeUnchanged

NextCall == CallHandle \/ CallLog

SpecCall == InitCall /\ [][NextCall]_vars

\* SpecArtifact: one handle_encounter call under every setting of the save_pk3
\* toggles, on a first or a later sighting of the species.
SavePk3Toggles == [all : BOOLEAN, shiny : BOOLEAN, custom : BOOLEAN, roamer : BOOLEAN]
ArtifactBehaviours == {<<"False", "False">>, <<"Msg", "False">>, <<"Raise", "False">>}

InitArtifact ==
    /\ catch_block_file \in {{}, {"Unown"}}
    /\ block_list = catch_block_file
    /\ config \in [auto_catch : {TRUE}, save_pk3 : SavePk3Toggles]
    /\ profile_file = FALSE
    /\ custom_catch_filters = NONE
    /\ roamer \in {NoRoamer, ActiveRoamer("A", "Unown")}
    /\ last_encounter \in {NONE, "A"}
    /\ stats_log = IF last_encounter = NONE THEN <<>>
                   ELSE <<[personality_value |-> last_encounter, ccf_result |-> "False"]>>
    /\ bot_mode = "Spin"
    /\ he = NoCall
    /\ calls = <<>>
    /\ pc = "idle"
    /\ mode = IdleMode

ArtifactHandle ==
    /\ calls = <<>>
    /\ \E pokemon \in Creatures, b \in ArtifactBehaviours, seen \in BOOLEAN :
          HandleEncounter(pokemon, Args(FALSE, FALSE, FALSE), Env(b[1], b[2], seen, "BATTLE"))
    /\ ModeUnchanged

NextArtifact == ArtifactHandle

SpecArtifact == InitArtifact /\ [][NextArtifact]_vars

\* SpecResolve: calls that evaluate the filter, one after the other in one
\* process, while the per-profile filter file comes and goes.
ResolveCreatures == {Creature("A", "Beldum", FALSE), Creature("B", "Beldum", TRUE)}
ResolveBehaviours == {<<"False", "False">>, <<"ImportError", "False">>}

InitResolve ==
    /\ catch_block_file = {}
    /\ block_list = catch_block_file
    /\ config = SeqConfig
    /\ profile_file \in BOOLEAN
    /\ custom_catch_filters = NONE
    /\ roamer = NoRoamer
    /\ last_encounter = NONE
    /\ stats_log = <<>>
    /\ bot_mode = "Spin"
    /\ he = NoCall
    /\ calls = <<>>
    /\ pc = "idle"
    /\ mode = IdleMode

ResolveEdit == EditProfileFile /\ ModeUnchanged

ResolveHandle ==
    /\ Len(calls) < MaxCalls
    /\ \E pokemon \in ResolveCreatures, b \in ResolveBehaviours :
          HandleEncounter(pokemon, Args(FALSE, FALSE, FALSE),
                          Env(b[1], b[2], FALSE, "BATTLE"))
    /\ ModeUnchanged

ResolveLog ==
    /\ Len(calls) < MaxCalls
    /\ \E pokemon \in ResolveCreatures, b \in ResolveBehaviours :
          LogEncounter(pokemon, NONE, Env(b[1], b[2], FALSE, "OVERWORLD"))
    /\ ModeUnchanged

NextResolve == ResolveEdit \/ ResolveHandle \/ ResolveLog

SpecResolve == InitResolve /\ [][NextResolve]_vars

\* SpecMode: one run of the Static Gift Resets mode.
\* The games, and for each the targets the mode is started at (some of
\* Targets(rom)), None when the player faces no gift tile.
ModeRoms == {"FRLG", "E", "RS"}
ModeTargets(rom) ==
    IF rom = "FRLG" THEN {NONE, "Lapras", "Kanto Fossils", "Togepi"}
    ELSE {NONE, "Beldum", "Hoenn Fossils", "Wynaut"}
ModeBehaviours == {<<"False", "False">>, <<"Msg", "False">>, <<"Raise", "False">>}
GiftCreatures(target) == {Creature("A", GiftSpecies(target), sh) : sh \in BOOLEAN}

\* The saved games and live states the mode can be started in: a fact is varied
\* only for the targets whose checks read it.
ModeInits ==
    {m \in [rom : ModeRoms,
            target : UNION {ModeTargets(r) : r \in ModeRoms},
            save : [exists : BOOLEAN, on_map : BOOLEAN, registered_bike : BOOLEAN,
                    egg_flag : BOOLEAN, friendship : {254, 255}, fossil_var : 0..2,
                    party_full : BOOLEAN, party_size : {1, 2, 6},
                    eggs : {{}, {"other"}}],
            fossil_var : 0..2, attempts : {0}, eggs : {{}, {"other"}}, party_size : {1, 2, 6},
            egg_has_hatched : {FALSE}, popped : {FALSE}, held : {FALSE},
            step : {NoStep}, err : {NONE}] :
        /\ m.target \in ModeTargets(m.rom)
        /\ m.target \notin EggTargets =>
              m.save.registered_bike /\ ~m.save.egg_flag /\ m.save.eggs = {}
        /\ m.target # "Togepi" => m.save.friendship = 255
        /\ m.target \notin FossilTargets => m.save.fossil_var = 2 /\ m.fossil_var = 2
        /\ m.save.party_size = IF m.save.party_full THEN 6
                               ELSE IF m.save.eggs = {} THEN 1 ELSE 2
        /\ m.eggs = m.save.eggs
        /\ m.party_size = m.save.party_size}

InitMode ==
    /\ mode \in ModeInits
    /\ pc = "start"
    /\ catch_block_file \in {{}, {GiftSpecies(mode.target)}}
    /\ block_list = catch_block_file
    /\ config = SeqConfig
    /\ profile_file = FALSE
    /\ custom_catch_filters = NONE
    /\ roamer = NoRoamer
    /\ last_encounter = NONE
    /\ stats_log = <<>>
    /\ bot_mode = "Static Gift Resets"
    /\ he = NoCall
    /\ calls = <<>>

ModeHandleGift ==
    \E pokemon \in GiftCreatures(mode.target), b \in ModeBehaviours :
       HandleGift(pokemon, Env(b[1], b[2], FALSE, "OVERWORLD"))

ModeEggHatched ==
    \E egg \in {"gift", "other"}, interest \in BOOLEAN : EggHatched(egg, interest)

NextMode ==
    \/ RunStart
    \/ SoftResetDone
    \/ RngDone
    \/ MsgboxDone
    \/ FanfareDone
    \/ PressB
    \/ Controllable
    \/ NavigateDone
    \/ Pacing
    \/ StartMenuDone
    \/ ModeHandleGift
    \/ EggReceived
    \/ ModeEggHatched
    \/ NavigationRaises
    \/ Abandoned
    \/ OperatorSetManual

SpecMode == InitMode /\ [][NextMode]_vars

\* SpecModeFair: the same run under the scheduler, which advances the mode on
\* every frame, and the game, which gives the egg and hatches every egg carried
\* while the player walks. The operator and the failures of the walk are not
\* bound to happen.
ModeAdvance ==
    \/ RunStart
    \/ SoftResetDone
    \/ RngDone
    \/ MsgboxDone
    \/ FanfareDone
    \/ PressB
    \/ Controllable
    \/ NavigateDone
    \/ Pacing
    \/ StartMenuDone
    \/ ModeHandleGift

SpecModeFair ==
    /\ InitMode
    /\ [][NextMode]_vars
    /\ WF_vars(ModeAdvance)
    /\ WF_vars(EggReceived)
    /\ WF_vars(ModeEggHatched)

\* ------------------------------------------------------------------ claims
Handled == he.op = "handle_encounter"

\* The indices of the events e in a trace.
EventIndices(trace, e) == {i \in DOMAIN trace : trace[i].e = e}

\* The species or the stats name of the creature is in the list.
Listed(pokemon, list) ==
    \E name \in list : name = pokemon.species \/ name = pokemon.species_name_for_stats

\* The creature has the personality value and the species of the active roamer.
EqualsRoamer(pokemon) ==
    /\ roamer # NoRoamer
    /\ roamer.personality_value = pokemon.personality_value
    /\ roamer.species = pokemon.species

\* C1: for every creature and every combination of shininess, filter result,
\* active roamer and block list, judge_encounter returns one EncounterValue, with
\* the precedence Shiny > CustomFilterMatch > Roamer > Trash: a shiny creature is
\* Shiny or ShinyOnBlockList whatever the filter and the roamer say; a non-shiny
\* creature whose filter result is not False is CustomFilterMatch even when it
\* equals the active roamer; Roamer or RoamerOnBlockList is returned only for a
\* non-shiny, non-matching creature that equals the active roamer; everything
\* else is Trash.
C1_Precedence ==
    Handled =>
        LET p == he.pokemon
            f == run_custom_catch_filters(he.env.fret, he.env.hret)
            v == he.r.value
        IN  /\ p.is_shiny =>
                  v = IF Listed(p, he.file) THEN "ShinyOnBlockList" ELSE "Shiny"
            /\ (~p.is_shiny /\ ~f.raised) =>
                  /\ v \in EncounterValues
                  /\ f.result # "False" => v = "CustomFilterMatch"
                  /\ (f.result = "False" /\ EqualsRoamer(p)) =>
                        v = IF Listed(p, he.file) THEN "RoamerOnBlockList" ELSE "Roamer"
                  /\ (f.result = "False" /\ ~EqualsRoamer(p)) => v = "Trash"
                  /\ v \in {"Roamer", "RoamerOnBlockList"} =>
                        f.result = "False" /\ EqualsRoamer(p)

\* C1 witness: a non-shiny creature that matches the filter and is the active
\* roamer has been classified CustomFilterMatch.
C1_Witness ==
    /\ Handled
    /\ ~he.pokemon.is_shiny
    /\ he.env.fret = "Msg"
    /\ EqualsRoamer(he.pokemon)
    /\ he.r.value = "CustomFilterMatch"

\* The decision table of handle_encounter.
TableDecision(value, auto_catch, disable_auto_catch, enable_auto_battle, battle) ==
    IF value \in {"Shiny", "CustomFilterMatch", "Roamer"}
    THEN IF auto_catch /\ ~disable_auto_catch /\ battle THEN "Catch" ELSE "CustomAction"
    ELSE IF enable_auto_battle THEN "Fight" ELSE "RunAway"

BattleActive == he.env.game_state # "OVERWORLD"

\* C2: for every combination of classification, auto_catch, disable_auto_catch,
\* enable_auto_battle and battle state, handle_encounter chooses the decision of
\* the table, and that decision is what it returns: Catch for an encounter of
\* interest exactly when auto-catch is enabled, not disabled by the caller, and a
\* battle is active, CustomAction otherwise; Fight or RunAway by
\* enable_auto_battle for the other classifications.
C2_DecisionTable ==
    (Handled /\ he.r.value # NONE) =>
        LET d == TableDecision(he.r.value, he.auto_catch, he.args.disable_auto_catch,
                               he.args.enable_auto_battle, BattleActive)
        IN  /\ he.r.value \in EncounterValues
            /\ he.r.decision \in BattleActions
            /\ he.r.decision = d
            /\ ~he.r.raised => he.r.trace[Len(he.r.trace)] = Ev("return", d)

\* C2 witness (scenario A): a Trash encounter with enable_auto_battle, in battle,
\* returned Fight.
C2_Witness ==
    /\ Handled
    /\ he.r.value = "Trash"
    /\ ~roamer.active
    /\ he.args.enable_auto_battle
    /\ BattleActive
    /\ ~he.r.raised
    /\ he.r.decision = "Fight"

\* C5: when handle_encounter handles an encounter of interest (Shiny,
\* CustomFilterMatch, Roamer) while auto-catch is off in the configuration or
\* disabled by the caller, the bot is in manual mode and the decision is
\* CustomAction; for ShinyOnBlockList, RoamerOnBlockList and Trash it never
\* switches to manual mode.
C5_ManualMode ==
    (Handled /\ he.r.value # NONE) =>
        /\ (/\ he.r.value \in {"Shiny", "CustomFilterMatch", "Roamer"}
            /\ (~he.auto_catch \/ he.args.disable_auto_catch)) =>
               /\ bot_mode = "Manual"
               /\ he.r.decision = "CustomAction"
               /\ EventIndices(he.r.trace, "set_manual_mode") # {}
        /\ he.r.value \in {"ShinyOnBlockList", "RoamerOnBlockList", "Trash"} =>
               /\ bot_mode = he.prev_mode
               /\ EventIndices(he.r.trace, "set_manual_mode") = {}

\* C5 witness (scenario B): a shiny creature of an unblocked species, auto-catch
\* off: CustomAction returned, checkpoint created, bot in manual mode.
C5_Witness ==
    /\ Handled
    /\ he.r.value = "Shiny"
    /\ ~he.auto_catch
    /\ ~he.r.raised
    /\ he.r.decision = "CustomAction"
    /\ EventIndices(he.r.trace, "create_save_state") # {}
    /\ he.prev_mode # "Manual"
    /\ bot_mode = "Manual"

\* C9: a handle_encounter call that returns makes exactly one log_encounter call,
\* after the decision is chosen; the call passes None when the caller set
\* do_not_log_battle_action or no battle is active, and the returned decision
\* otherwise.
C9_OneLogCall ==
    (Handled /\ ~he.r.raised) =>
        LET t == he.r.trace
            logs == EventIndices(t, "log_encounter")
            returned == t[Len(t)].a
        IN  /\ Cardinality(logs) = 1
            /\ \A i \in logs :
                  /\ \E k \in EventIndices(t, "decision") : k < i
                  /\ t[i].a = IF he.args.do_not_log_battle_action \/ ~BattleActive
                              THEN NONE ELSE returned

\* C9 witness: a call in battle, without do_not_log_battle_action, returned Catch
\* and logged Catch.
C9_Witness ==
    /\ Handled
    /\ ~he.r.raised
    /\ ~he.args.do_not_log_battle_action
    /\ BattleActive
    /\ he.r.decision = "Catch"
    /\ \E i \in EventIndices(he.r.trace, "log_encounter") : he.r.trace[i].a = "Catch"

\* C10: a non-shiny creature for which the filter returns False and the hook
\* returns False or None, while no roamer is active, is Trash; a non-shiny
\* creature is CustomFilterMatch only when the filter or the hook reported a
\* match (a message or True).
C10_NoMatchIsTrash ==
    (Handled /\ ~he.pokemon.is_shiny) =>
        /\ (/\ he.env.fret = "False"
            /\ he.env.hret \in {"False", "None"}
            /\ ~roamer.active) => he.r.value = "Trash"
        /\ he.r.value = "CustomFilterMatch" =>
               \/ he.env.fret \in {"True", "Msg"}
               \/ he.env.hret \in {"True", "Msg"}

\* The personality value recorded last before call i, None when there is none.
LastRecordedBefore(i) ==
    LET js == {j \in 1..(i - 1) : calls[j].recorded}
    IN  IF js = {} THEN NONE
        ELSE calls[CHOOSE j \in js : \A k \in js : k <= j].pokemon.personality_value

\* C3: over any sequence of log_encounter calls, a call (that returns) records
\* the encounter exactly when nothing has been recorded before or the encounter
\* recorded last has another personality value; the stats log holds the recorded
\* encounters in order, so A, A records once and A, B, A records three entries.
C3_DedupLastOnly ==
    /\ \A i \in DOMAIN calls :
          (calls[i].logged /\ calls[i].returned) =>
              (calls[i].recorded <=>
                  \/ LastRecordedBefore(i) = NONE
                  \/ LastRecordedBefore(i) # calls[i].pokemon.personality_value)
    /\ LET rec == SelectSeq(calls, LAMBDA c : c.recorded)
       IN  /\ Len(stats_log) = Len(rec)
           /\ \A i \in DOMAIN rec :
                 stats_log[i].personality_value = rec[i].pokemon.personality_value

\* C3 witness: the calls A, B, A have all returned and the stats log holds the
\* three entries A, B, A.
C3_Witness ==
    /\ Len(calls) = 3
    /\ \A i \in 1..3 : calls[i].logged /\ calls[i].returned
    /\ calls[1].pokemon.personality_value = "A"
    /\ calls[2].pokemon.personality_value = "B"
    /\ calls[3].pokemon.personality_value = "A"
    /\ Len(stats_log) = 3
    /\ stats_log[3].personality_value = "A"

\* C4: across any interleaving of block list edits and classifications, a
\* block-sensitive classification (the shiny check, the roamer check) decides on
\* the block list file as it is at that call, and leaves that list loaded: a
\* shiny creature whose species is listed is ShinyOnBlockList and never Shiny, and
\* is Shiny once the species is unlisted.
C4_FreshBlockList ==
    /\ \A i \in DOMAIN calls :
          LET c == calls[i]
          IN  /\ (c.pokemon.is_shiny /\ c.value # NONE) =>
                    c.value = IF Listed(c.pokemon, c.file) THEN "ShinyOnBlockList" ELSE "Shiny"
              /\ c.value \in {"Roamer", "RoamerOnBlockList"} =>
                    (c.value = "RoamerOnBlockList" <=> Listed(c.pokemon, c.file))
    /\ (Handled /\ he.r.value \in {"Shiny", "ShinyOnBlockList", "Roamer", "RoamerOnBlockList"}) =>
          /\ he.r.block_list = he.file
          /\ EventIndices(he.r.trace, "reload_file") # {}

\* C4 witness: the same shiny creature was classified ShinyOnBlockList and, after
\* its species was unlisted, Shiny at the next classification.
C4_Witness ==
    \E i \in DOMAIN calls :
        /\ i + 1 \in DOMAIN calls
        /\ calls[i].pokemon.is_shiny
        /\ calls[i + 1].pokemon = calls[i].pokemon
        /\ calls[i].value = "ShinyOnBlockList"
        /\ calls[i + 1].value = "Shiny"

\* One of the checks made before the loop fails in the state the mode was
\* started in.
AnyPreconditionFails ==
    LET t == mode.target
        sv == mode.save
    IN  \/ t = NONE
        \/ ~sv.exists
        \/ ~sv.on_map
        \/ t \in {"Wynaut", "Togepi"} /\ ~sv.registered_bike
        \/ t \in {"Wynaut", "Togepi"} /\ sv.egg_flag
        \/ t = "Togepi" /\ sv.friendship < 255
        \/ t \in {"Hoenn Fossils", "Kanto Fossils"}
              /\ (sv.fossil_var \in {0, 1} \/ mode.fossil_var = 0)
        \/ sv.party_full

\* C6: if a precondition check fails (not facing a gift tile, no saved game,
\* target not on the saved map, bike not registered, egg already received,
\* friendship below 255, invalid fossil state, full party), run ends with a
\* BotModeError before the first soft reset, before any suspension point, input or
\* other change of state; the retry loop is never entered.
C6_PreconditionsFirst ==
    AnyPreconditionFails =>
        /\ pc \in {"start", "error"}
        /\ pc = "error" => mode.err \notin {NONE, "filter raised"}
        /\ mode.attempts = 0
        /\ mode.step = NoStep
        /\ ~mode.held
        /\ ~mode.egg_has_hatched
        /\ mode.eggs = mode.save.eggs
        /\ mode.party_size = mode.save.party_size
        /\ he = NoCall
        /\ calls = <<>>
        /\ stats_log = <<>>

\* C6 witness: run has ended with the error of the last check, the full party.
C6_Witness ==
    /\ pc = "error"
    /\ mode.save.party_full
    /\ mode.err = "party is full"
    /\ mode.attempts = 0

\* What C7 says of every state: an attempt starts only while the bot mode is not
\* Manual; when the gift creature has been handled (with auto-catch disabled) and
\* is not of interest, the next soft reset follows; when it is of interest, the bot
\* is in manual mode, no soft reset follows and run has ended.
C7_State ==
    /\ mode.step.iter = "retry" => ~mode.step.manual /\ "soft_reset" \in mode.step.input
    /\ (mode.step.handled /\ Handled) =>
          /\ he.args.disable_auto_catch
          /\ (/\ ~he.r.raised
              /\ he.r.value \in {"ShinyOnBlockList", "RoamerOnBlockList", "Trash"}
              /\ he.prev_mode # "Manual") =>
                 /\ pc = "soft_reset"
                 /\ mode.step.iter = "retry"
          /\ he.r.value \in {"Shiny", "CustomFilterMatch", "Roamer"} =>
                 /\ bot_mode = "Manual"
                 /\ mode.step.iter = "none"
                 /\ pc \in {"done", "error"}
                 /\ ~he.r.raised => pc = "done"

\* Once run has ended, it takes no further step.
C7_Ended == pc \in {"done", "error"} => (pc' = pc /\ mode' = mode)

\* C7: the retry loop starts an attempt (soft reset) only while the bot mode is
\* not Manual and repeats until it is: a gift creature that is not of interest is
\* followed by another soft reset, one that is of interest switches the bot to
\* manual mode, after which no soft reset is ever issued and run has completed.
C7_RetryUntilManual ==
    /\ []C7_State
    /\ [][C7_Ended]_vars

\* C7 witness: a first attempt was followed by a second one, whose gift creature
\* was of interest: the bot is in manual mode and run has completed.
C7_Witness ==
    /\ mode.step.handled
    /\ Handled
    /\ he.r.value \in {"Shiny", "CustomFilterMatch"}
    /\ ~he.r.raised
    /\ mode.attempts = 2
    /\ Len(calls) = 2
    /\ bot_mode = "Manual"
    /\ pc = "done"

\* C8: every long-running loop of the mode (the retry loop, the loop pressing B
\* until an egg is in the party, the loop repeating the hatch sub-sequence, the
\* pacing loop of hatch_egg) polls the bot mode on each iteration: no iteration of
\* any of them begins, and issues input, while the bot mode is Manual.
C8_EveryLoopPolls ==
    mode.step.iter # "none" => ~mode.step.manual

\* The call handled a non-shiny creature that equals the active roamer, matches
\* no filter and whose species is not on the block list.
RoamerSighted ==
    /\ Handled
    /\ ~he.pokemon.is_shiny
    /\ EqualsRoamer(he.pokemon)
    /\ he.env.fret = "False" /\ he.env.hret = "False"
    /\ ~Listed(he.pokemon, he.file)

\* C11 as stated: an unlisted, non-shiny, non-matching creature that equals the
\* active roamer is classified Roamer and, on its first sighting, a checkpoint
\* (savestate) is created for it only if the roamer toggle of save_pk3 is enabled.
C11_CheckpointOnlyIfToggle ==
    RoamerSighted =>
        /\ he.r.value = "Roamer"
        /\ (~he.env.seen /\ EventIndices(he.r.trace, "create_save_state") # {}) =>
               config.save_pk3.roamer

\* C11 as amended: such a creature is classified Roamer and a checkpoint is created
\* for it whatever the toggles are; what the roamer toggle governs is the pk3
\* export of the Roamer arm, made exactly on a first sighting with the roamer
\* toggle enabled and the all toggle disabled.
C11_RoamerCheckpointAlways ==
    RoamerSighted =>
        /\ he.r.value = "Roamer"
        /\ Cardinality(EventIndices(he.r.trace, "create_save_state")) = 1
        /\ (\E i \in EventIndices(he.r.trace, "save_pk3") : he.r.trace[i].a = "handle_encounter")
              <=> (~he.env.seen /\ config.save_pk3.roamer /\ ~config.save_pk3.all)

\* C11 witness: a roamer sighted for the first time with the roamer toggle
\* disabled: the checkpoint is created, no pk3 is exported.
C11_Witness ==
    /\ RoamerSighted
    /\ ~he.env.seen
    /\ ~config.save_pk3.roamer
    /\ he.r.value = "Roamer"
    /\ EventIndices(he.r.trace, "create_save_state") # {}
    /\ EventIndices(he.r.trace, "save_pk3") = {}

\* The tag of a checkpoint: the classification name and the sanitized name of the
\* species (the Unown letter's question mark cannot stay in a file name).
CheckpointTag(value, pokemon) ==
    IF pokemon.species = "Unown" THEN value \o "_Unown (_)"
    ELSE value \o "_" \o pokemon.species

\* C12: handle_encounter creates exactly one checkpoint, tagged with the
\* classification name and the sanitized species name, for every handled
\* encounter classified Shiny, CustomFilterMatch or Roamer, and none for
\* ShinyOnBlockList, RoamerOnBlockList and Trash; the checkpoint is created before
\* the bot is switched to manual mode and before the encounter is logged.
C12_OneCheckpoint ==
    (Handled /\ he.r.value # NONE) =>
        LET t == he.r.trace
            cps == EventIndices(t, "create_save_state")
        IN  IF he.r.value \in {"Shiny", "CustomFilterMatch", "Roamer"}
            THEN /\ Cardinality(cps) = 1
                 /\ \A i \in cps :
                       /\ t[i].a = CheckpointTag(he.r.value, he.pokemon)
                       /\ \A k \in EventIndices(t, "set_manual_mode") : i < k
                       /\ \A k \in EventIndices(t, "log_encounter") : i < k
                       /\ EventIndices(t, "log_encounter") # {}
            ELSE cps = {}

\* C12 witness: a shiny Unown was handled with auto-catch off: the checkpoint
\* Shiny_Unown (_) was created, then the bot was switched to manual mode and the
\* encounter was logged.
C12_Witness ==
    /\ Handled
    /\ he.r.value = "Shiny"
    /\ he.pokemon.species = "Unown"
    /\ ~he.r.raised
    /\ \E i \in EventIndices(he.r.trace, "create_save_state") :
          /\ he.r.trace[i].a = "Shiny_Unown (_)"
          /\ \E k \in EventIndices(he.r.trace, "set_manual_mode") : i < k
          /\ \E k \in EventIndices(he.r.trace, "log_encounter") : i < k

\* The pk3 exports made during the call, by the arm of handle_encounter and by
\* log_encounter.
ArmExports == {i \in EventIndices(he.r.trace, "save_pk3") : he.r.trace[i].a = "handle_encounter"}
LogExports == {i \in EventIndices(he.r.trace, "save_pk3") : he.r.trace[i].a = "log_encounter"}

\* C13 as stated: while an encounter classified RoamerOnBlockList or Trash is
\* handled, no pk3 is exported, whatever the save_pk3 toggles and the last logged
\* encounter are.
C13_NeverExported ==
    (Handled /\ he.r.value \in {"RoamerOnBlockList", "Trash"}) =>
        EventIndices(he.r.trace, "save_pk3") = {}

\* C13 as amended: while such an encounter is handled, no pk3 is exported as long
\* as the all toggle is disabled, whatever the other toggles and the last logged
\* encounter are; with the all toggle enabled, log_encounter exports it, once,
\* exactly when it records the encounter (it is not a repeat of the last one).
C13_ExportedOnlyByAll ==
    (Handled /\ he.r.value \in {"RoamerOnBlockList", "Trash"}) =>
        /\ ArmExports = {}
        /\ ~config.save_pk3.all => LogExports = {}
        /\ config.save_pk3.all =>
              Cardinality(LogExports) =
                  IF he.prev_last = he.pokemon.personality_value THEN 0 ELSE 1

\* C13 witness: a blocked roamer, seen for the first time and recorded, with the
\* roamer toggle enabled and the all toggle disabled: nothing was exported.
C13_Witness ==
    /\ Handled
    /\ he.r.value = "RoamerOnBlockList"
    /\ ~he.env.seen
    /\ config.save_pk3.roamer /\ ~config.save_pk3.all
    /\ he.r.recorded
    /\ EventIndices(he.r.trace, "save_pk3") = {}

\* C14: hatch_egg releases all held buttons whenever it ends, on normal
\* completion (the hatched flag ends the pacing) and on abort (navigate_to or
\* follow_waypoints raises, or the sub-sequence is abandoned while suspended in
\* the pacing loop): outside hatch_egg no button is left held.
C14_ButtonsReleased ==
    pc \notin {"navigate", "pacing"} => ~mode.held

\* hatch_egg has completed normally at least once in this attempt: the gift egg
\* has hatched, the pacing has ended and the buttons are released.
C14_NormalExit ==
    /\ pc \in {"soft_reset", "done", "wait_controllable"}
    /\ mode.target \in EggTargets
    /\ mode.egg_has_hatched
    /\ ~mode.held

\* The filter callback raises, or it returns a falsy value and the hook raises.
FilterRaises ==
    \/ he.env.fret = "Raise"
    \/ he.env.fret \in {"False", "None"} /\ he.env.hret = "Raise"

\* The call evaluates the filter: judge_encounter does for a creature that is not
\* shiny, log_encounter does unless the creature repeats the last encounter.
FilterEvaluated ==
    \/ Handled /\ ~he.pokemon.is_shiny
    \/ he.prev_last # he.pokemon.personality_value

\* C15: a failure of the custom filter or of the plugin hook is never swallowed:
\* when the filter is evaluated during judge_encounter, log_encounter or
\* handle_encounter and raises, the operation ends with that error,
\* handle_encounter returns no decision, and nothing is appended to the stats log
\* for that encounter.
C15_FilterErrorPropagates ==
    (he.op # "none" /\ FilterEvaluated /\ FilterRaises) =>
        LET t == he.r.trace
        IN  /\ he.r.raised
            /\ t[Len(t)] = Ev("raise", "filter")
            /\ EventIndices(t, "return") = {}
            /\ EventIndices(t, "stats.log_encounter") = {}
            /\ Len(stats_log) = he.prev_len
            /\ last_encounter = he.prev_last

\* C15 witness: a shiny creature was classified and its checkpoint created, then
\* the filter raised in log_encounter: the call ended with the error.
C15_Witness ==
    /\ Handled
    /\ he.pokemon.is_shiny
    /\ he.env.fret = "Raise"
    /\ he.r.value = "Shiny"
    /\ EventIndices(he.r.trace, "create_save_state") # {}
    /\ he.r.raised
    /\ Len(stats_log) = he.prev_len

\* C16: every place that decides whether a classification is of interest agrees
\* with the decision table: EncounterValue.is_of_interest is true for exactly the
\* classifications handle_encounter treats as of interest, that is Shiny,
\* CustomFilterMatch and Roamer, and false for ShinyOnBlockList,
\* RoamerOnBlockList and Trash.
C16_InterestAgrees ==
    (Handled /\ he.r.value # NONE) =>
        /\ EncounterValue_is_of_interest(he.r.value) = he.r.is_of_interest
        /\ EncounterValue_is_of_interest(he.r.value)
              <=> he.r.value \in {"Shiny", "CustomFilterMatch", "Roamer"}

\* While hatch_egg is suspended in its pacing loop, it has walked a step of the
\* path and holds the direction.
C17_State ==
    pc = "pacing" =>
        /\ mode.step.iter = "pacing"
        /\ "move" \in mode.step.input
        /\ mode.held

\* What C17 says of every step. The pacing goes on to something else than an
\* error only when the hatched flag is set; the step of the pacing loop that finds
\* the flag set ends the pacing; a hatch signal for the egg the player already
\* had (not in the last slot) leaves the flag and the pacing as they are, one for
\* the gift egg (in the last slot) sets the flag.
C17_Step ==
    /\ (pc = "pacing" /\ pc' \notin {"pacing", "error", "abandoned"}) =>
           mode.egg_has_hatched
    /\ (pc = "pacing" /\ mode.egg_has_hatched /\ mode'.eggs = mode.eggs
           /\ bot_mode' = bot_mode) => pc' # "pacing"
    /\ (pc \in {"navigate", "pacing"} /\ mode.eggs \ mode'.eggs = {"other"}) =>
           /\ mode'.egg_has_hatched = mode.egg_has_hatched
           /\ pc' = pc
    /\ (pc \in {"navigate", "pacing"} /\ mode.eggs \ mode'.eggs = {"gift"}) =>
           mode'.egg_has_hatched

\* C17: once pacing, hatch_egg keeps walking between its two points, suspending
\* once per step, and ends at the first step at which the hatched flag is set;
\* on_egg_hatched sets the flag only for the egg in the last party slot, so the
\* hatch of an egg in another slot does not end the pacing.
C17_PacingUntilHatched ==
    /\ []C17_State
    /\ [][C17_Step]_vars

\* C17 witness: the egg the player already had has hatched, and hatch_egg is
\* still pacing for the gift egg, the flag unset.
C17_Witness ==
    /\ pc = "pacing"
    /\ "other" \in mode.save.eggs
    /\ mode.eggs = {"gift"}
    /\ ~mode.egg_has_hatched
    /\ mode.held

\* The gift egg received in this attempt has hatched and the mode is in the
\* hatching loop of lines 251-254 (within the attempts the model follows).
GiftEggHatched ==
    /\ mode.target \in EggTargets
    /\ pc \in {"wait_controllable", "navigate", "pacing"}
    /\ mode.party_size > mode.save.party_size
    /\ "gift" \notin mode.eggs
    /\ mode.attempts < MaxAttempts

\* The attempt has ended: the next one has started with a soft reset, or run has
\* ended (the bot is in manual mode, or an error was raised).
AttemptEnded == pc \in {"soft_reset", "done", "error", "abandoned"}

\* C18: in the egg branch every hatch of the gift egg ends the attempt, also when
\* the mode was started with another egg in the party and whichever egg hatches
\* first: once on_egg_hatched was signalled for the gift egg, the mode eventually
\* leaves the hatching loop and starts the next attempt with a soft reset, unless
\* the bot was switched to manual mode.
C18_GiftHatchEndsAttempt == GiftEggHatched ~> AttemptEnded

\* C18 restricted to the runs started without another egg in the party.
C18_WithoutOtherEgg == (GiftEggHatched /\ mode.save.eggs = {}) ~> AttemptEnded

\* The mode was started at a fossil tile and the checks made before the fossil
\* check (lines 97-105) pass.
FossilChecked ==
    /\ mode.target \in {"Hoenn Fossils", "Kanto Fossils"}
    /\ mode.save.exists
    /\ mode.save.on_map
    /\ pc # "start"

\* C19: for a fossil target, with s the event variable in the saved game and v
\* its live value, the fossil check passes exactly when s is neither 0 nor 1 and
\* v is not 0; otherwise run raises: v = 0 gives 'first give a Fossil to the
\* Scientist'; s = 0 with v not 0 gives 'save the game after giving a Fossil';
\* s = 1 with v = 1 gives 'the Scientist is not ready yet'; s = 1 with v neither
\* 0 nor 1 gives 'you need to save the game'.
C19_FossilPrecedence ==
    FossilChecked =>
        LET s == mode.save.fossil_var
            v == mode.fossil_var
            fossil_errors == {"first give a Fossil to the Scientist",
                              "save the game after giving a Fossil",
                              "the Scientist is not ready yet",
                              "you need to save the game"}
        IN  /\ (s \notin {0, 1} /\ v # 0) <=> ~(pc = "error" /\ mode.err \in fossil_errors)
            /\ v = 0 =>
                  pc = "error" /\ mode.err = "first give a Fossil to the Scientist"
            /\ (s = 0 /\ v # 0) =>
                  pc = "error" /\ mode.err = "save the game after giving a Fossil"
            /\ (s = 1 /\ v = 1) =>
                  pc = "error" /\ mode.err = "the Scientist is not ready yet"
            /\ (s = 1 /\ v \notin {0, 1}) =>
                  pc = "error" /\ mode.err = "you need to save the game"

\* C19 witness: the saved game and the live game both hold 0: run has raised the
\* 'first give a Fossil' error, not the 'save the game' one.
C19_Witness ==
    /\ FossilChecked
    /\ mode.save.fossil_var = 0
    /\ mode.fossil_var = 0
    /\ pc = "error"
    /\ mode.err = "first give a Fossil to the Scientist"

\* C19 witness of the passing case: the saved value is 2 and the live value 1,
\* and the mode has started its first attempt.
C19_Passed ==
    /\ FossilChecked
    /\ mode.save.fossil_var = 2
    /\ mode.fossil_var = 1
    /\ pc = "soft_reset"

\* Before the first call nothing is resolved.
C20_State ==
    /\ custom_catch_filters \in {NONE, "profile", "default"}
    /\ calls = <<>> => custom_catch_filters = NONE

\* What C20 says of every step. A resolved callback is kept, whatever happens to
\* the profile file; the callback is set only by a call, from None, to the
\* profile's override when its file exists at that moment and to the packaged
\* default otherwise; a call that evaluates the filter, its import succeeding,
\* leaves the callback resolved.
C20_Step ==
    /\ custom_catch_filters # NONE => custom_catch_filters' = custom_catch_filters
    /\ custom_catch_filters' # custom_catch_filters =>
          /\ custom_catch_filters = NONE
          /\ Len(calls') = Len(calls) + 1
          /\ custom_catch_filters' = IF profile_file THEN "profile" ELSE "default"
    /\ (Len(calls') = Len(calls) + 1 /\ he'.r.ccf_calls > 0
           /\ he'.env.fret # "ImportError") => custom_catch_filters' # NONE
    /\ (Len(calls') = Len(calls) + 1 /\ he'.r.ccf_calls = 0) =>
          custom_catch_filters' = custom_catch_filters

\* C20: over any sequence of run_custom_catch_filters calls in one process, the
\* filter callback is resolved lazily at the first call and successfully resolved
\* at most once: the per-profile override when its file exists at that moment,
\* else the packaged default; every later call reuses the same callback even if
\* the file has been added or removed since.
C20_ResolvedOnce ==
    /\ []C20_State
    /\ [][C20_Step]_vars

\* C20 witness: the default was resolved while the profile had no file; the file
\* was added, and a later call that evaluated the filter still used the default.
C20_Witness ==
    /\ custom_catch_filters = "default"
    /\ he.op # "none"
    /\ he.profile_file
    /\ Len(calls) >= 2
    /\ he.r.ccf_calls > 0
    /\ ~he.r.raised
    /\ calls[Len(calls)].recorded

\* The positions of run from which control reaches the head of the retry loop.
LoopHeadArrivals == {"start", "party_menu", "wait_fanfare", "press_b", "navigate", "pacing"}

\* At most one handle_encounter call has been made per attempt, and while the
\* soft reset or the wait for the RNG value is under way the attempt has issued
\* no confirm or cancel input.
C21_State ==
    /\ Len(calls) <= mode.attempts
    /\ pc \in {"soft_reset", "wait_rng"} => mode.step.input \cap {"A", "B"} = {}
    /\ pc = "soft_reset" => mode.step.input = {"soft_reset"}

\* What C21 says of every step: an attempt begins with the soft reset; the soft
\* reset is followed by the wait for the RNG value and that wait by the message
\* boxes; a confirm or cancel input is issued only by a step that completes the
\* wait for the RNG value or comes after it; handle_encounter is called only by
\* the step that follows the navigation to the summary screen, once in the
\* attempt.
C21_Step ==
    /\ mode'.attempts # mode.attempts =>
          /\ mode'.attempts = mode.attempts + 1
          /\ pc \in LoopHeadArrivals
          /\ pc' = "soft_reset"
    /\ (pc' = "soft_reset" /\ pc # "soft_reset") => mode'.attempts = mode.attempts + 1
    /\ pc = "soft_reset" => pc' \in {"soft_reset", "wait_rng"}
    /\ pc = "wait_rng" => pc' \in {"wait_rng", "msgbox"}
    /\ (pc' = "msgbox" /\ pc # "msgbox") => pc = "wait_rng"
    /\ (mode'.step # mode.step /\ mode'.step.input \cap {"A", "B"} # {}) =>
          pc \in {"wait_rng", "msgbox", "wait_fanfare", "press_b"}
    /\ (pc' = "party_menu" /\ pc # "party_menu") => pc = "start_menu"
    /\ (pc' = "start_menu" /\ pc # "start_menu") => pc = "msgbox"
    /\ calls' # calls =>
          /\ pc = "party_menu"
          /\ Len(calls) = mode.attempts - 1
          /\ Len(calls') = mode.attempts
          /\ he'.op = "handle_encounter"

\* C21: within every attempt of the retry loop the soft reset comes first, then
\* the wait for a unique RNG value, and only after both is a confirm or cancel
\* input of the message boxes issued; handle_encounter is called at most once per
\* attempt and only after the navigation to the summary screen has completed.
C21_AttemptOrder ==
    /\ []C21_State
    /\ [][C21_Step]_vars

\* C21 witness: the first attempt went through all its steps and called
\* handle_encounter once; the second attempt is at its soft reset.
C21_Witness ==
    /\ pc = "soft_reset"
    /\ mode.attempts = 2
    /\ Len(calls) = 1
    /\ Handled
    /\ mode.step.handled
    /\ mode.step.input = {"soft_reset"}

\* C22: one handle_encounter call exports the pk3 at most once, under every
\* combination of the all, shiny, custom and roamer toggles, classification and
\* last logged encounter: the export of the classification's arm and the export
\* of log_encounter under the all toggle never both happen in the same call.
C22_AtMostOneExport ==
    Handled =>
        /\ Cardinality(EventIndices(he.r.trace, "save_pk3")) <= 1
        /\ ~(ArmExports # {} /\ LogExports # {})
        /\ ArmExports # {} => ~config.save_pk3.all
        /\ LogExports # {} => config.save_pk3.all

\* C22 witness: a shiny creature was handled and recorded with the all and the
\* shiny toggle both enabled: log_encounter exported it and the Shiny arm did not.
C22_Witness ==
    /\ Handled
    /\ he.r.value = "Shiny"
    /\ config.save_pk3.all /\ config.save_pk3.shiny
    /\ he.r.recorded
    /\ ArmExports = {}
    /\ Cardinality(LogExports) = 1

====
